---- MODULE Spec2Model ----
(***************************************************************************)
(* A model of the coordination core of ecs-rs: the aspect! predicate, the  *)
(* SystemManager generated by systems!, the component bundle generated by  *)
(* components!, the ModifyData gateway, and the dual-aspect InteractSystem.*)
(***************************************************************************)
EXTENDS Naturals, Sequences, FiniteSets

\* Number of entity identities the exploration uses.
MaxEntity == 1

\* Longest all: / none: field list of an aspect evaluated on its own.
MaxFields == 2

\* The component bundle declared with components!: three ComponentLists.
CompTypes == {"A", "B", "C"}

Ids == 1..MaxEntity

\* An Entity handle; `**entity` is its numeric identity.
Entity(i) == [id |-> i]

Entities == {Entity(i) : i \in Ids}

Key(entity) == entity.id

(***************************************************************************)
(* Component storage: co[i] is the set of component types whose            *)
(* ComponentList holds a value for identity i.                             *)
(***************************************************************************)

\* ComponentList::has through the EntityData / ModifyData gateway.
Has(entity, co, field) == field \in co[Key(entity)]

\* ComponentList::insert through ModifyData / BuildData.
ListInsert(entity, co, field) == [co EXCEPT ![Key(entity)] = @ \cup {field}]

\* ComponentList::remove through ModifyData.
ListRemove(entity, co, field) == [co EXCEPT ![Key(entity)] = @ \ {field}]

\* The bundle's fields in the order components! declares them.
BundleFields == <<"A", "B", "C">>

\* A purge that stops one field short of the end of the bundle.
RECURSIVE RemoveAllButLast(_, _, _)
RemoveAllButLast(entity, co, n) ==
    IF n >= Len(BundleFields) THEN co
    ELSE RemoveAllButLast(entity, ListRemove(entity, co, BundleFields[n]), n + 1)

\* ComponentManager::remove_all: $( self.$field_name.remove(entity); )+
RECURSIVE RemoveAllFrom(_, _, _)
RemoveAllFrom(entity, co, n) ==
    IF n > Len(BundleFields) THEN co
    ELSE RemoveAllFrom(entity, ListRemove(entity, co, BundleFields[n]), n + 1)

(***************************************************************************)
(* aspect!: the closure                                                    *)
(*   ($(en.has(&co.$all_field) &&)* true) &&                               *)
(*   !($(en.has(&co.$none_field) ||)* false)                               *)
(* The field lists are sequences, folded left to right as the macro        *)
(* expands them.                                                           *)
(***************************************************************************)
RECURSIVE AllFold(_, _, _)
AllFold(fields, entity, co) ==
    IF fields = << >> THEN TRUE
    ELSE Has(entity, co, Head(fields)) /\ AllFold(Tail(fields), entity, co)

RECURSIVE NoneFold(_, _, _)
NoneFold(fields, entity, co) ==
    IF fields = << >> THEN FALSE
    ELSE Has(entity, co, Head(fields)) \/ NoneFold(Tail(fields), entity, co)

\* The full form: all: [...] none: [...].
AspectFull(allFields, noneFields) == [all |-> allFields, none |-> noneFields]

\* A slip in the all:-only arm: the fields land in the none: list.
AspectAllSwapped(fields) == AspectFull(<< >>, fields)

\* The all:-only form expands to the full form with none: [].
AspectAll(fields) == AspectFull(fields, << >>)

\* The none:-only form expands to the full form with all: [].
AspectNone(fields) == AspectFull(<< >>, fields)

\* A closure that leaves out the none: half.
CheckAllOnly(aspect, entity, co) == AllFold(aspect.all, entity, co)

\* Aspect::check runs the closure built by aspect!.
Check(aspect, entity, co) ==
    AllFold(aspect.all, entity, co) /\ ~NoneFold(aspect.none, entity, co)

(***************************************************************************)
(* The systems! declaration: the registered InteractSystems, in field      *)
(* order, each constructed with its two aspects.                           *)
(***************************************************************************)
SystemDecls ==
    << [aspect_a |-> AspectFull(<<"A", "B">>, <<"C">>),
        aspect_b |-> AspectAll(<<"C">>)],
       [aspect_a |-> AspectNone(<<"C">>),
        aspect_b |-> AspectFull(<< >>, << >>)] >>

NumSystems == Len(SystemDecls)

SysIds == 1..NumSystems

(***************************************************************************)
(* TrieMap<Entity>: a map from identity to Entity handle.                  *)
(***************************************************************************)
EmptyMap == << >>

ContainsKey(m, k) == k \in DOMAIN m

MapInsert(m, k, v) == [x \in (DOMAIN m) \cup {k} |-> IF x = k THEN v ELSE m[x]]

MapRemove(m, k) == [x \in (DOMAIN m) \ {k} |-> m[x]]

\* TrieMap::values(): the stored handles, in ascending key order.
RECURSIVE ValuesFrom(_, _)
ValuesFrom(m, k) ==
    IF k > MaxEntity THEN << >>
    ELSE IF ContainsKey(m, k) THEN <<m[k]>> \o ValuesFrom(m, k + 1)
    ELSE ValuesFrom(m, k + 1)

Values(m) == ValuesFrom(m, 1)

(***************************************************************************)
(* InteractSystem.  A system's state is its two membership maps, its       *)
(* is_active flag and `inner`, the notifications its inner routine has     *)
(* received during the current manager call.  A notification carries the   *)
(* aspect whose branch issued it, as a ghost tag.                          *)
(***************************************************************************)
Note(kind, aspect, entity) == [kind |-> kind, aspect |-> aspect, entity |-> entity]

\* InteractSystem::new
NewSystem ==
    [interested_a |-> EmptyMap, interested_b |-> EmptyMap,
     active |-> TRUE, inner |-> << >>]

\* A copy-paste slip: the aspect_b branch inserts into interested_a.
ActivatedWrongSet(self, decl, entity, co) ==
    LET s1 == IF Check(decl.aspect_a, entity, co)
              THEN [self EXCEPT
                      !.interested_a = MapInsert(@, Key(entity), entity),
                      !.inner = Append(@, Note("activated", "a", entity))]
              ELSE self
    IN  IF Check(decl.aspect_b, entity, co)
        THEN [s1 EXCEPT
                !.interested_a = MapInsert(@, Key(entity), entity),
                !.inner = Append(@, Note("activated", "b", entity))]
        ELSE s1

\* A list in place of the map: a match pushes the handle at the next index.
ActivatedPushes(self, decl, entity, co) ==
    LET s1 == IF Check(decl.aspect_a, entity, co)
              THEN [self EXCEPT
                      !.interested_a = MapInsert(@, Cardinality(DOMAIN @) + 1, entity),
                      !.inner = Append(@, Note("activated", "a", entity))]
              ELSE self
    IN  IF Check(decl.aspect_b, entity, co)
        THEN [s1 EXCEPT
                !.interested_b = MapInsert(@, Cardinality(DOMAIN @) + 1, entity),
                !.inner = Append(@, Note("activated", "b", entity))]
        ELSE s1

\* InteractSystem::activated
Activated(self, decl, entity, co) ==
    LET s1 == IF Check(decl.aspect_a, entity, co)
              THEN [self EXCEPT
                      !.interested_a = MapInsert(@, Key(entity), entity),
                      !.inner = Append(@, Note("activated", "a", entity))]
              ELSE self
    IN  IF Check(decl.aspect_b, entity, co)
        THEN [s1 EXCEPT
                !.interested_b = MapInsert(@, Key(entity), entity),
                !.inner = Append(@, Note("activated", "b", entity))]
        ELSE s1

\* A member that no longer matches is reported but not removed.
ReactivatedNoRemove(self, decl, entity, co) ==
    LET s1 == IF ContainsKey(self.interested_a, Key(entity))
              THEN IF Check(decl.aspect_a, entity, co)
                   THEN [self EXCEPT
                           !.inner = Append(@, Note("reactivated", "a", entity))]
                   ELSE [self EXCEPT
                           !.inner = Append(@, Note("deactivated", "a", entity))]
              ELSE IF Check(decl.aspect_a, entity, co)
                   THEN [self EXCEPT
                           !.interested_a = MapInsert(@, Key(entity), entity),
                           !.inner = Append(@, Note("activated", "a", entity))]
                   ELSE self
    IN  IF ContainsKey(s1.interested_b, Key(entity))
        THEN IF Check(decl.aspect_b, entity, co)
             THEN [s1 EXCEPT
                     !.inner = Append(@, Note("reactivated", "b", entity))]
             ELSE [s1 EXCEPT
                     !.inner = Append(@, Note("deactivated", "b", entity))]
        ELSE IF Check(decl.aspect_b, entity, co)
             THEN [s1 EXCEPT
                     !.interested_b = MapInsert(@, Key(entity), entity),
                     !.inner = Append(@, Note("activated", "b", entity))]
             ELSE s1

\* A copy-paste slip: the aspect_b half tests membership in interested_a.
ReactivatedSharedTest(self, decl, entity, co) ==
    LET s1 == IF ContainsKey(self.interested_a, Key(entity))
              THEN IF Check(decl.aspect_a, entity, co)
                   THEN [self EXCEPT
                           !.inner = Append(@, Note("reactivated", "a", entity))]
                   ELSE [self EXCEPT
                           !.interested_a = MapRemove(@, Key(entity)),
                           !.inner = Append(@, Note("deactivated", "a", entity))]
              ELSE IF Check(decl.aspect_a, entity, co)
                   THEN [self EXCEPT
                           !.interested_a = MapInsert(@, Key(entity), entity),
                           !.inner = Append(@, Note("activated", "a", entity))]
                   ELSE self
    IN  IF ContainsKey(s1.interested_a, Key(entity))
        THEN IF Check(decl.aspect_b, entity, co)
             THEN [s1 EXCEPT
                     !.inner = Append(@, Note("reactivated", "b", entity))]
             ELSE [s1 EXCEPT
                     !.interested_b = MapRemove(@, Key(entity)),
                     !.inner = Append(@, Note("deactivated", "b", entity))]
        ELSE IF Check(decl.aspect_b, entity, co)
             THEN [s1 EXCEPT
                     !.interested_b = MapInsert(@, Key(entity), entity),
                     !.inner = Append(@, Note("activated", "b", entity))]
             ELSE s1

\* InteractSystem::reactivated
Reactivated(self, decl, entity, co) ==
    LET s1 == IF ContainsKey(self.interested_a, Key(entity))
              THEN IF Check(decl.aspect_a, entity, co)
                   THEN [self EXCEPT
                           !.inner = Append(@, Note("reactivated", "a", entity))]
                   ELSE [self EXCEPT
                           !.interested_a = MapRemove(@, Key(entity)),
                           !.inner = Append(@, Note("deactivated", "a", entity))]
              ELSE IF Check(decl.aspect_a, entity, co)
                   THEN [self EXCEPT
                           !.interested_a = MapInsert(@, Key(entity), entity),
                           !.inner = Append(@, Note("activated", "a", entity))]
                   ELSE self
    IN  IF ContainsKey(s1.interested_b, Key(entity))
        THEN IF Check(decl.aspect_b, entity, co)
             THEN [s1 EXCEPT
                     !.inner = Append(@, Note("reactivated", "b", entity))]
             ELSE [s1 EXCEPT
                     !.interested_b = MapRemove(@, Key(entity)),
                     !.inner = Append(@, Note("deactivated", "b", entity))]
        ELSE IF Check(decl.aspect_b, entity, co)
             THEN [s1 EXCEPT
                     !.interested_b = MapInsert(@, Key(entity), entity),
                     !.inner = Append(@, Note("activated", "b", entity))]
             ELSE s1

\* `deactivated` forwarded whether or not the entity was in the set.
DeactivatedAlways(self, decl, entity, co) ==
    [self EXCEPT
       !.interested_a = MapRemove(@, Key(entity)),
       !.interested_b = MapRemove(@, Key(entity)),
       !.inner = @ \o <<Note("deactivated", "a", entity),
                        Note("deactivated", "b", entity)>>]

\* The second removal chained with `else if` to the first.
DeactivatedElseIf(self, decl, entity, co) ==
    IF ContainsKey(self.interested_a, Key(entity))
    THEN [self EXCEPT
            !.interested_a = MapRemove(@, Key(entity)),
            !.inner = Append(@, Note("deactivated", "a", entity))]
    ELSE IF ContainsKey(self.interested_b, Key(entity))
    THEN [self EXCEPT
            !.interested_b = MapRemove(@, Key(entity)),
            !.inner = Append(@, Note("deactivated", "b", entity))]
    ELSE self

\* InteractSystem::deactivated
Deactivated(self, decl, entity, co) ==
    LET s1 == IF ContainsKey(self.interested_a, Key(entity))
              THEN [self EXCEPT
                      !.interested_a = MapRemove(@, Key(entity)),
                      !.inner = Append(@, Note("deactivated", "a", entity))]
              ELSE self
    IN  IF ContainsKey(s1.interested_b, Key(entity))
        THEN [s1 EXCEPT
                !.interested_b = MapRemove(@, Key(entity)),
                !.inner = Append(@, Note("deactivated", "b", entity))]
        ELSE s1

\* A copy-paste slip: set A handed over twice.
ProcessBothA(self) ==
    [a |-> Values(self.interested_a), b |-> Values(self.interested_a)]

\* InteractSystem::process: what the inner routine is handed.
Process(self) ==
    [a |-> Values(self.interested_a), b |-> Values(self.interested_b)]

(***************************************************************************)
(* SystemManager generated by systems!.  `mgr.systems` are the fields,     *)
(* `mgr.delivered` logs the callbacks issued by the current call and       *)
(* `mgr.processed` the process() calls of the current update pass.         *)
(***************************************************************************)
\* A manager that notifies only the systems whose enable flag is set.
CallbackIfActive(kind, self, decl, entity, co) ==
    IF ~self.active THEN self
    ELSE CASE kind = "activated" -> Activated(self, decl, entity, co)
           [] kind = "reactivated" -> Reactivated(self, decl, entity, co)
           [] kind = "deactivated" -> Deactivated(self, decl, entity, co)

\* One InteractSystem callback, chosen by the kind of the manager call.
Callback(kind, self, decl, entity, co) ==
    CASE kind = "activated" -> Activated(self, decl, entity, co)
      [] kind = "reactivated" -> Reactivated(self, decl, entity, co)
      [] kind = "deactivated" -> Deactivated(self, decl, entity, co)

\* The fields visited last to first.
FieldOrderReversed == [i \in SysIds |-> NumSystems + 1 - i]

\* The systems, in the order the macro's repetition visits them.
FieldOrder == [i \in SysIds |-> i]

\* A fan-out that returns after the first field.
RECURSIVE FanOutFirstOnly(_, _, _, _, _)
FanOutFirstOnly(kind, mgr, n, entity, co) ==
    IF n > 1 THEN mgr
    ELSE LET i == FieldOrder[n]
         IN  FanOutFirstOnly(kind,
                    [mgr EXCEPT
                       !.systems[i] = Callback(kind, @, SystemDecls[i], entity, co),
                       !.delivered = Append(@, [sys |-> i, kind |-> kind,
                                                entity |-> entity])],
                    n + 1, entity, co)

\* A fan-out whose first callback consumes the entity's components: the
\* systems after it see the lists purged.
RECURSIVE FanOutPurging(_, _, _, _, _)
FanOutPurging(kind, mgr, n, entity, co) ==
    IF n > Len(FieldOrder) THEN mgr
    ELSE LET i == FieldOrder[n]
         IN  FanOutPurging(kind,
                    [mgr EXCEPT
                       !.systems[i] = Callback(kind, @, SystemDecls[i], entity, co),
                       !.delivered = Append(@, [sys |-> i, kind |-> kind,
                                                entity |-> entity])],
                    n + 1, entity, RemoveAllFrom(entity, co, 1))

\* $( self.$field_name.<kind>(&en, co); )+
RECURSIVE FanOut(_, _, _, _, _)
FanOut(kind, mgr, n, entity, co) ==
    IF n > Len(FieldOrder) THEN mgr
    ELSE LET i == FieldOrder[n]
         IN  FanOut(kind,
                    [mgr EXCEPT
                       !.systems[i] = Callback(kind, @, SystemDecls[i], entity, co),
                       !.delivered = Append(@, [sys |-> i, kind |-> kind,
                                                entity |-> entity])],
                    n + 1, entity, co)

\* An update pass without the is_active test.
RECURSIVE UpdatePassUngated(_, _)
UpdatePassUngated(mgr, n) ==
    IF n > Len(FieldOrder) THEN mgr
    ELSE LET i == FieldOrder[n]
         IN  UpdatePassUngated(
                 [mgr EXCEPT
                    !.processed = Append(@, [sys |-> i,
                                             args |-> Process(mgr.systems[i])])],
                 n + 1)

\* $( if self.$field_name.is_active() { self.$field_name.process(co); } )+
RECURSIVE UpdatePass(_, _)
UpdatePass(mgr, n) ==
    IF n > Len(FieldOrder) THEN mgr
    ELSE LET i == FieldOrder[n]
         IN  UpdatePass(
                 IF mgr.systems[i].active
                 THEN [mgr EXCEPT
                         !.processed = Append(@, [sys |-> i,
                                                  args |-> Process(mgr.systems[i])])]
                 ELSE mgr,
                 n + 1)

\* The logs are per call: a manager call starts with them empty.
Fresh(mgr) ==
    [systems |-> [i \in SysIds |-> [mgr.systems[i] EXCEPT !.inner = << >>]],
     delivered |-> << >>,
     processed |-> << >>]

(***************************************************************************)
(* State.                                                                  *)
(***************************************************************************)
VARIABLES
    co,      \* the ComponentManager
    mgr,     \* the SystemManager
    event,   \* the last operation performed and its argument
    probe,   \* the last stand-alone aspect evaluation, if any
    world    \* the World's entity table

vars == <<co, mgr, event, probe, world>>

NoEntity == [id |-> 0]

NoProbe == [form |-> "none"]

Init ==
    /\ co = [i \in Ids |-> {}]
    /\ mgr = [systems |-> [i \in SysIds |-> NewSystem],
              delivered |-> << >>,
              processed |-> << >>]
    /\ event = [op |-> "new", entity |-> NoEntity]
    /\ probe = NoProbe
    /\ world = [i \in Ids |-> [state |-> "free", reused |-> FALSE]]

\* SystemManager::activated
SMActivated(entity) ==
    /\ mgr' = FanOut("activated", Fresh(mgr), 1, entity, co)
    /\ event' = [op |-> "activated", entity |-> entity]
    /\ probe' = NoProbe
    /\ UNCHANGED <<co, world>>

\* SystemManager::reactivated
SMReactivated(entity) ==
    /\ mgr' = FanOut("reactivated", Fresh(mgr), 1, entity, co)
    /\ event' = [op |-> "reactivated", entity |-> entity]
    /\ probe' = NoProbe
    /\ UNCHANGED <<co, world>>

\* SystemManager::deactivated
SMDeactivated(entity) ==
    /\ mgr' = FanOut("deactivated", Fresh(mgr), 1, entity, co)
    /\ event' = [op |-> "deactivated", entity |-> entity]
    /\ probe' = NoProbe
    /\ UNCHANGED <<co, world>>

\* SystemManager::update
SMUpdate ==
    /\ mgr' = UpdatePass(Fresh(mgr), 1)
    /\ event' = [op |-> "update", entity |-> NoEntity]
    /\ probe' = NoProbe
    /\ UNCHANGED <<co, world>>

\* The caller flips a system's enable flag.
SetActive(i, flag) ==
    /\ mgr.systems[i].active # flag
    /\ mgr' = [Fresh(mgr) EXCEPT !.systems[i].active = flag]
    /\ event' = [op |-> "set_active", entity |-> NoEntity]
    /\ probe' = NoProbe
    /\ UNCHANGED <<co, world>>

\* ModifyData::insert
Insert(entity, field) ==
    /\ ~Has(entity, co, field)
    /\ co' = ListInsert(entity, co, field)
    /\ mgr' = Fresh(mgr)
    /\ event' = [op |-> "insert", entity |-> NoEntity]
    /\ probe' = NoProbe
    /\ UNCHANGED world

\* ModifyData::remove
Remove(entity, field) ==
    /\ Has(entity, co, field)
    /\ co' = ListRemove(entity, co, field)
    /\ mgr' = Fresh(mgr)
    /\ event' = [op |-> "remove", entity |-> NoEntity]
    /\ probe' = NoProbe
    /\ UNCHANGED world

\* ComponentManager::remove_all
RemoveAll(entity) ==
    /\ co' = RemoveAllFrom(entity, co, 1)
    /\ mgr' = Fresh(mgr)
    /\ event' = [op |-> "remove_all", entity |-> entity]
    /\ probe' = NoProbe
    /\ UNCHANGED world

Range(f) == {f[n] : n \in DOMAIN f}

Next ==
    \/ \E entity \in Entities : SMActivated(entity)
    \/ \E entity \in Entities : SMReactivated(entity)
    \/ \E entity \in Entities : SMDeactivated(entity)
    \/ SMUpdate
    \/ \E i \in SysIds, flag \in BOOLEAN : SetActive(i, flag)
    \/ \E entity \in Entities, field \in CompTypes : Insert(entity, field)
    \/ \E entity \in Entities, field \in CompTypes : Remove(entity, field)
    \/ \E entity \in Entities : RemoveAll(entity)

Spec == Init /\ [][Next]_vars

(***************************************************************************)
(* Aspects evaluated on their own: an aspect is built in one of the three  *)
(* forms of aspect! from field lists over the bundle, and checked against  *)
(* an entity.                                                              *)
(***************************************************************************)
\* The field lists without repeated fields, up to MaxFields long.
FieldLists ==
    UNION {{f \in [1..n -> CompTypes] : Cardinality(Range(f)) = n} : n \in 0..MaxFields}

\* Build an aspect in the given form and call check on it.
EvalAspect(form, allFields, noneFields, entity) ==
    /\ probe = NoProbe
    /\ \/ form = "full"
       \/ form = "all" /\ noneFields = << >>
       \/ form = "none" /\ allFields = << >>
    /\ LET aspect == CASE form = "full" -> AspectFull(allFields, noneFields)
                       [] form = "all" -> AspectAll(allFields)
                       [] form = "none" -> AspectNone(noneFields)
       IN  probe' = [form |-> form, all |-> allFields, none |-> noneFields,
                     entity |-> entity, result |-> Check(aspect, entity, co)]
    /\ UNCHANGED <<co, mgr, event, world>>

\* The evaluation has returned.
EvalReturn ==
    /\ probe # NoProbe
    /\ probe' = NoProbe
    /\ UNCHANGED <<co, mgr, event, world>>

AspectNext ==
    \/ \E form \in {"full", "all", "none"}, allFields \in FieldLists,
          noneFields \in FieldLists, entity \in Entities :
            EvalAspect(form, allFields, noneFields, entity)
    \/ EvalReturn
    \/ \E entity \in Entities, field \in CompTypes :
            probe = NoProbe /\ Insert(entity, field)
    \/ \E entity \in Entities, field \in CompTypes :
            probe = NoProbe /\ Remove(entity, field)

AspectSpec == Init /\ [][AspectNext]_vars

(***************************************************************************)
(* The World: the entity table and the four operations of the specification*)
(* (create, activate, modify, delete) that drive the component bundle and  *)
(* the SystemManager.  world[i].state is "free" (never allocated, or       *)
(* retired and back on the free-list), "building" or "active";             *)
(* world[i].reused records that an earlier entity has held identity i.     *)
(***************************************************************************)

\* Longest mutation batch handed to modify_entity.
MaxBatch == 2

\* One edit through the ModifyData gateway.
Edits == {[op |-> o, field |-> f] : o \in {"insert", "remove"}, f \in CompTypes}

FieldIndex(field) == CHOOSE n \in 1..Len(BundleFields) : BundleFields[n] = field

\* The batches of up to MaxBatch edits.  Edits of different fields act on
\* different ComponentLists and commute, so a batch is taken with its edits
\* grouped in bundle order; repeated edits of one field keep their order.
Batches ==
    UNION {{b \in [1..n -> Edits] :
              \A k \in 1..(n - 1) :
                 FieldIndex(b[k].field) <= FieldIndex(b[k + 1].field)}
           : n \in 1..MaxBatch}

\* The edits of a batch, applied in order through ModifyData.
RECURSIVE ApplyBatch(_, _, _)
ApplyBatch(entity, store, batch) ==
    IF batch = << >> THEN store
    ELSE ApplyBatch(entity,
                    IF Head(batch).op = "insert"
                    THEN ListInsert(entity, store, Head(batch).field)
                    ELSE ListRemove(entity, store, Head(batch).field),
                    Tail(batch))

StateOf(entity) == world[Key(entity)].state

\* create_entity: an identity off the free-list, in the building state.
CreateEntity(entity) ==
    /\ StateOf(entity) = "free"
    /\ world' = [world EXCEPT ![Key(entity)].state = "building"]
    /\ mgr' = Fresh(mgr)
    /\ event' = [op |-> "create", entity |-> entity]
    /\ probe' = NoProbe
    /\ UNCHANGED co

\* activate_entity: building -> active, with the activated fan-out.
ActivateEntity(entity) ==
    /\ StateOf(entity) = "building"
    /\ world' = [world EXCEPT ![Key(entity)].state = "active"]
    /\ mgr' = FanOut("activated", Fresh(mgr), 1, entity, co)
    /\ event' = [op |-> "activate", entity |-> entity]
    /\ probe' = NoProbe
    /\ UNCHANGED co

\* modify_entity: the batch, then one reactivated fan-out if the entity is
\* active.
ModifyEntity(entity, batch) ==
    /\ StateOf(entity) \in {"building", "active"}
    /\ co' = ApplyBatch(entity, co, batch)
    /\ mgr' = IF StateOf(entity) = "active"
              THEN FanOut("reactivated", Fresh(mgr), 1, entity, co')
              ELSE Fresh(mgr)
    /\ event' = [op |-> "modify", entity |-> entity, edits |-> Len(batch)]
    /\ probe' = NoProbe
    /\ UNCHANGED world

\* delete_entity: the deactivated fan-out, then the purge, then the identity
\* goes back on the free-list.
DeleteEntity(entity) ==
    /\ StateOf(entity) = "active"
    /\ mgr' = FanOut("deactivated", Fresh(mgr), 1, entity, co)
    /\ co' = RemoveAllFrom(entity, co, 1)
    /\ world' = [world EXCEPT ![Key(entity)] = [state |-> "free", reused |-> TRUE]]
    /\ event' = [op |-> "delete", entity |-> entity]
    /\ probe' = NoProbe

WorldNext ==
    \/ \E entity \in Entities : CreateEntity(entity)
    \/ \E entity \in Entities : ActivateEntity(entity)
    \/ \E entity \in Entities, batch \in Batches : ModifyEntity(entity, batch)
    \/ \E entity \in Entities : DeleteEntity(entity)
    \/ SMUpdate

WorldSpec == Init /\ [][WorldNext]_vars

(***************************************************************************)
(* A callback that raises.  The System callbacks and the manager calls     *)
(* return (), so the one way a system can raise an error to its caller is  *)
(* a panic, and the generated fan-out is a plain sequence of calls: the    *)
(* panic unwinds through it.  `raising` is the system whose inner routine  *)
(* panics at the first lifecycle call forwarded to it.                     *)
(***************************************************************************)
\* The InteractSystem left behind when the inner routine panics in the first
\* forward of a callback whose uninterrupted outcome would be `full`: the map
\* update before that forward is done, nothing after it is.
UntilPanic(self, full) ==
    IF full.inner = << >> THEN full
    ELSE [self EXCEPT
            !.interested_a = full.interested_a,
            !.interested_b = IF Head(full.inner).aspect = "a"
                             THEN self.interested_b ELSE full.interested_b,
            !.inner = <<Head(full.inner)>>]

\* $( self.$field_name.<kind>(&en, co); )+ with a panicking system: the calls
\* after the panicking one are never made.
RECURSIVE FanOutRaising(_, _, _, _, _, _)
FanOutRaising(kind, m, n, entity, store, raising) ==
    IF n > Len(FieldOrder) THEN [mgr |-> m, panicked |-> FALSE]
    ELSE LET i == FieldOrder[n]
             full == Callback(kind, m.systems[i], SystemDecls[i], entity, store)
             called == Append(m.delivered, [sys |-> i, kind |-> kind,
                                            entity |-> entity])
         IN  IF i = raising /\ full.inner # << >>
             THEN [mgr |-> [m EXCEPT
                              !.systems[i] = UntilPanic(m.systems[i], full),
                              !.delivered = called],
                   panicked |-> TRUE]
             ELSE FanOutRaising(kind,
                      [m EXCEPT !.systems[i] = full, !.delivered = called],
                      n + 1, entity, store, raising)

\* The caller has seen a manager call panic.
Panicked == "raising" \in DOMAIN event

\* SystemManager::activated / reactivated / deactivated when the inner routine
\* of system `raising` panics.  The calls return (): `surfaced`, the errors
\* handed back to the caller, is empty, and the panic is all the caller sees.
SMRaising(kind, entity, raising) ==
    LET out == FanOutRaising(kind, Fresh(mgr), 1, entity, co, raising)
    IN  /\ ~Panicked
        /\ out.panicked
        /\ mgr' = out.mgr
        /\ event' = [op |-> kind, entity |-> entity, raising |-> raising,
                     surfaced |-> << >>]
        /\ probe' = NoProbe
        /\ UNCHANGED <<co, world>>

\* The program under a system that may panic; nothing runs after the unwind.
ErrorNext ==
    \/ ~Panicked /\ Next
    \/ \E kind \in {"activated", "reactivated", "deactivated"},
          entity \in Entities, raising \in SysIds :
            SMRaising(kind, entity, raising)

ErrorSpec == Init /\ [][ErrorNext]_vars

(***************************************************************************)
(* Vocabulary of the properties.                                           *)
(***************************************************************************)
Aspects == {"a", "b"}

Lifecycle == {"activated", "reactivated", "deactivated"}

\* The systems in the order SystemDecls declares them.
Registered == [n \in 1..NumSystems |-> n]

AspectOf(i, x) ==
    IF x = "a" THEN SystemDecls[i].aspect_a ELSE SystemDecls[i].aspect_b

Interested(m, i, x) ==
    IF x = "a" THEN m.systems[i].interested_a ELSE m.systems[i].interested_b

Member(m, i, x, e) == Key(e) \in DOMAIN Interested(m, i, x)

\* What the inner routine of system i received from the branch of aspect x.
NotesFor(m, i, x) == SelectSeq(m.systems[i].inner, LAMBDA n : n.aspect = x)

\* An aspect with all-set S and none-set N matches a set of components.
Matches(S, N, present) == S \subseteq present /\ N \cap present = {}

\* new is old with e stored under e's identity.
AddedTo(old, new, e) ==
    /\ DOMAIN new = (DOMAIN old) \cup {Key(e)}
    /\ new[Key(e)] = e
    /\ \A k \in (DOMAIN old) \ {Key(e)} : new[k] = old[k]

\* new is old without the entry of e's identity.
RemovedFrom(old, new, e) ==
    /\ DOMAIN new = (DOMAIN old) \ {Key(e)}
    /\ \A k \in DOMAIN new : new[k] = old[k]

IsEvent(ev, op, e) == ev.op = op /\ ev.entity = e

(***************************************************************************)
(* C1.  InteractSystem.activated(e): for each aspect on its own, a match   *)
(* adds e to that aspect's set and forwards exactly one `activated` from   *)
(* that aspect's branch; no match leaves the set as it was and forwards    *)
(* nothing.                                                                *)
(***************************************************************************)
C1_ActivatedPerAspect ==
    [][\A e \in Entities : IsEvent(event', "activated", e) =>
         \A i \in SysIds, x \in Aspects :
            IF Check(AspectOf(i, x), e, co)
            THEN /\ AddedTo(Interested(mgr, i, x), Interested(mgr', i, x), e)
                 /\ NotesFor(mgr', i, x) = <<Note("activated", x, e)>>
            ELSE /\ Interested(mgr', i, x) = Interested(mgr, i, x)
                 /\ NotesFor(mgr', i, x) = << >>]_vars

\* After activated(e), system 1 saw e match aspect A only (one forward) and
\* system 2 saw it match both aspects (two forwards, e in both sets).
C1_Witness ==
    \E e \in Entities :
        /\ IsEvent(event, "activated", e)
        /\ mgr.systems[1].inner = <<Note("activated", "a", e)>>
        /\ Member(mgr, 1, "a", e) /\ ~Member(mgr, 1, "b", e)
        /\ mgr.systems[2].inner = <<Note("activated", "a", e), Note("activated", "b", e)>>
        /\ Member(mgr, 2, "a", e) /\ Member(mgr, 2, "b", e)

(***************************************************************************)
(* C2.  InteractSystem.reactivated(e): per aspect set, member and still    *)
(* matching -> set unchanged, one `reactivated`; member and no longer      *)
(* matching -> removed, one `deactivated`; not a member and matching ->    *)
(* added, one `activated`; otherwise nothing forwarded, nothing changed.   *)
(***************************************************************************)
C2_ReactivatedFourCases ==
    [][\A e \in Entities : IsEvent(event', "reactivated", e) =>
         \A i \in SysIds, x \in Aspects :
            LET old == Interested(mgr, i, x)
                new == Interested(mgr', i, x)
                was == Member(mgr, i, x, e)
                now == Check(AspectOf(i, x), e, co)
                got == NotesFor(mgr', i, x)
            IN  /\ (was /\ now) => new = old /\ got = <<Note("reactivated", x, e)>>
                /\ (was /\ ~now) => RemovedFrom(old, new, e)
                                      /\ got = <<Note("deactivated", x, e)>>
                /\ (~was /\ now) => AddedTo(old, new, e)
                                      /\ got = <<Note("activated", x, e)>>
                /\ (~was /\ ~now) => new = old /\ got = << >>]_vars

\* One reactivated(e) in which system 2 drops e from set A and refreshes it
\* in set B, while system 1 leaves set A alone and adds e to set B.
C2_Witness ==
    \E e \in Entities :
        /\ IsEvent(event, "reactivated", e)
        /\ mgr.systems[2].inner = <<Note("deactivated", "a", e), Note("reactivated", "b", e)>>
        /\ mgr.systems[1].inner = <<Note("activated", "b", e)>>
        /\ ~Member(mgr, 2, "a", e) /\ Member(mgr, 2, "b", e)
        /\ ~Member(mgr, 1, "a", e) /\ Member(mgr, 1, "b", e)

(***************************************************************************)
(* C3.  InteractSystem.deactivated(e): e leaves each set it was in, one    *)
(* `deactivated` is forwarded per set it was removed from, and the outcome *)
(* is the same whatever the component storage holds (no aspect is          *)
(* evaluated).                                                             *)
(***************************************************************************)
C3_DeactivatedPerSet ==
    [][\A e \in Entities : IsEvent(event', "deactivated", e) =>
         \A i \in SysIds :
            /\ \A x \in Aspects :
                  /\ RemovedFrom(Interested(mgr, i, x), Interested(mgr', i, x), e)
                  /\ NotesFor(mgr', i, x) =
                        IF Member(mgr, i, x, e)
                        THEN <<Note("deactivated", x, e)>> ELSE << >>
            /\ Len(mgr'.systems[i].inner) =
                  Cardinality({x \in Aspects : Member(mgr, i, x, e)})
            /\ \A held \in SUBSET CompTypes :
                  mgr'.systems[i] =
                     Deactivated(Fresh(mgr).systems[i], SystemDecls[i], e,
                                 [co EXCEPT ![Key(e)] = held])]_vars

\* After deactivated(e), system 2 removed e from both sets (two forwards),
\* system 1 from set B only (one forward).
C3_Witness ==
    \E e \in Entities :
        /\ IsEvent(event, "deactivated", e)
        /\ mgr.systems[2].inner = <<Note("deactivated", "a", e), Note("deactivated", "b", e)>>
        /\ mgr.systems[1].inner = <<Note("deactivated", "b", e)>>

(***************************************************************************)
(* C4.  After the `deactivated` fan-out for e, e is a member of neither    *)
(* set of any system, and a non-member becomes a member only by an         *)
(* `activated` or `reactivated` of that identity at which the aspect       *)
(* matches.                                                                *)
(***************************************************************************)
C4_NotInterestedAfterDelete ==
    [][\A e \in Entities, i \in SysIds, x \in Aspects :
         /\ IsEvent(event', "deactivated", e) => ~Member(mgr', i, x, e)
         /\ (~Member(mgr, i, x, e) /\ Member(mgr', i, x, e)) =>
               /\ event'.op \in {"activated", "reactivated"}
               /\ event'.entity = e
               /\ Check(AspectOf(i, x), e, co')]_vars

\* The fan-out removed e from both sets of system 2 while e's components
\* still match both of its aspects.
C4_Witness ==
    \E e \in Entities :
        /\ IsEvent(event, "deactivated", e)
        /\ Len(mgr.systems[2].inner) = 2
        /\ Check(AspectOf(2, "a"), e, co) /\ Check(AspectOf(2, "b"), e, co)
        /\ \A i \in SysIds, x \in Aspects : ~Member(mgr, i, x, e)

\* Membership in one set after an event, from the membership in that set
\* before and the result of that set's aspect.
NextMember(op, was, now) ==
    CASE op = "activated" -> was \/ now
      [] op = "reactivated" -> now
      [] op = "deactivated" -> FALSE
      [] OTHER -> was

(***************************************************************************)
(* C5.  Each set is tracked on its own: e's membership in a set after a    *)
(* step is a function of the step's event, e's membership in that same set *)
(* before, and that set's aspect alone.                                    *)
(***************************************************************************)
C5_AspectsIndependent ==
    [][\A e \in Entities, i \in SysIds, x \in Aspects :
         Member(mgr', i, x, e) =
            IF event'.entity = e
            THEN NextMember(event'.op, Member(mgr, i, x, e),
                            Check(AspectOf(i, x), e, co))
            ELSE Member(mgr, i, x, e)]_vars

\* One reactivated(e) added e to set A of system 1 and removed it from set B.
C5_Witness ==
    \E e \in Entities :
        /\ IsEvent(event, "reactivated", e)
        /\ mgr.systems[1].inner = <<Note("activated", "a", e), Note("deactivated", "b", e)>>
        /\ Member(mgr, 1, "a", e) /\ ~Member(mgr, 1, "b", e)

(***************************************************************************)
(* C6.  SystemManager.update(): process runs once on each system whose     *)
(* is_active flag is set and on no other, in registration order.           *)
(***************************************************************************)
C6_UpdateActiveInOrder ==
    event.op = "update" =>
        [n \in 1..Len(mgr.processed) |-> mgr.processed[n].sys] =
            SelectSeq(Registered, LAMBDA i : mgr.systems[i].active)

\* An update pass that ran both systems, first system 1 then system 2,
\* with an entity in a set.
C6_Witness ==
    /\ event.op = "update"
    /\ Len(mgr.processed) = 2
    /\ mgr.processed[1].sys = 1 /\ mgr.processed[2].sys = 2
    /\ mgr.processed[2].args.b # << >>

(***************************************************************************)
(* C7.  Each lifecycle call of the manager reaches every registered system *)
(* exactly once, as a callback of the same kind for the same entity, in    *)
(* registration order, for every call of the run.                          *)
(***************************************************************************)
C7_FanOutInOrder ==
    event.op \in Lifecycle =>
        mgr.delivered =
            [n \in 1..NumSystems |->
                [sys |-> Registered[n], kind |-> event.op, entity |-> event.entity]]

\* A deactivated fan-out delivered to system 1 and then to system 2, both of
\* which acted on it.
C7_Witness ==
    /\ event.op = "deactivated"
    /\ Len(mgr.delivered) = 2
    /\ mgr.delivered[1].sys = 1 /\ mgr.delivered[2].sys = 2
    /\ mgr.systems[1].inner # << >> /\ mgr.systems[2].inner # << >>

(***************************************************************************)
(* C8.  A system whose flag is off is skipped by update(), but lifecycle   *)
(* calls still reach it: it receives the callback and its sets follow the  *)
(* event as those of an enabled system do.                                 *)
(***************************************************************************)
C8_DisabledStillNotified ==
    \A i \in SysIds : ~mgr.systems[i].active =>
        /\ event.op = "update" =>
              \A n \in 1..Len(mgr.processed) : mgr.processed[n].sys # i
        /\ event.op \in Lifecycle =>
              /\ Cardinality({n \in 1..Len(mgr.delivered) :
                                 mgr.delivered[n] = [sys |-> i, kind |-> event.op,
                                                     entity |-> event.entity]}) = 1
              /\ \A x \in Aspects :
                    LET now == Check(AspectOf(i, x), event.entity, co)
                        is == Member(mgr, i, x, event.entity)
                    IN  /\ event.op = "activated" => (now => is)
                        /\ event.op = "reactivated" => (is <=> now)
                        /\ event.op = "deactivated" => ~is
                        /\ NotesFor(mgr, i, x) # << >> =>
                              (event.op = "deactivated" \/ (is <=> now))

\* System 1 is disabled and a reactivated(e) has just added e to its set A.
C8_Witness ==
    \E e \in Entities :
        /\ ~mgr.systems[1].active
        /\ IsEvent(event, "reactivated", e)
        /\ mgr.systems[1].inner = <<Note("activated", "a", e)>>
        /\ Member(mgr, 1, "a", e)

(***************************************************************************)
(* C9.  check is true exactly when the entity has every component of the   *)
(* all-set and none of the none-set, and evaluating it leaves component    *)
(* storage as it was.                                                      *)
(***************************************************************************)
C9_CheckAllAndNone ==
    [][probe' # NoProbe =>
         /\ probe'.result = Matches(Range(probe'.all), Range(probe'.none),
                                    co[Key(probe'.entity)])
         /\ co' = co]_vars

\* The aspect all: [A, B] none: [C] evaluated to true on an entity holding
\* exactly A and B.
C9_Witness ==
    /\ probe # NoProbe
    /\ probe.form = "full"
    /\ probe.all = <<"A", "B">> /\ probe.none = <<"C">>
    /\ co[Key(probe.entity)] = {"A", "B"}
    /\ probe.result

(***************************************************************************)
(* C10.  An aspect with empty all: and none: lists matches every entity;   *)
(* the all:-only form gives the result of the full form with none: [],     *)
(* the none:-only form that of the full form with all: [].                 *)
(***************************************************************************)
C10_EmptyAndShortForms ==
    probe # NoProbe =>
        /\ (probe.form = "full" /\ probe.all = << >> /\ probe.none = << >>)
              => probe.result
        /\ probe.form = "all" =>
              /\ probe.result = Check(AspectFull(probe.all, << >>), probe.entity, co)
              /\ probe.result = (Range(probe.all) \subseteq co[Key(probe.entity)])
        /\ probe.form = "none" =>
              /\ probe.result = Check(AspectFull(<< >>, probe.none), probe.entity, co)
              /\ probe.result = (Range(probe.none) \cap co[Key(probe.entity)] = {})

\* The all:-only aspect [C] evaluated to true on an entity holding every
\* component, where the same fields as a none: list would reject it.
C10_Witness ==
    /\ probe # NoProbe
    /\ probe.form = "all"
    /\ probe.all = <<"C">>
    /\ co[Key(probe.entity)] = CompTypes
    /\ probe.result

ArgsOf(entry, x) == IF x = "a" THEN entry.args.a ELSE entry.args.b

\* The (system, aspect) pairs whose aspect is {all: [f]} for one field f.
SingleFieldAspects ==
    {p \in SysIds \X Aspects :
        Len(AspectOf(p[1], p[2]).all) = 1 /\ AspectOf(p[1], p[2]).none = << >>}

(***************************************************************************)
(* C12.  End to end, for a system whose aspect is {all: [f]}: activating   *)
(* an entity that holds f makes it a member; each process pass hands the   *)
(* inner routine the entity exactly when it is a member; a mutation batch  *)
(* that leaves a member without f gives the inner routine exactly one      *)
(* `deactivated` for that aspect and ends the membership; and a non-member *)
(* becomes a member only at an event at which the aspect matches.          *)
(***************************************************************************)
C12_EndToEnd ==
    [][\A e \in Entities, p \in SingleFieldAspects :
         LET i == p[1]
             x == p[2]
             f == AspectOf(i, x).all[1]
         IN  /\ (IsEvent(event', "activate", e) /\ Has(e, co, f)) =>
                   /\ Member(mgr', i, x, e)
                   /\ NotesFor(mgr', i, x) = <<Note("activated", x, e)>>
             /\ event'.op = "update" =>
                   /\ Len(SelectSeq(mgr'.processed, LAMBDA r : r.sys = i)) = 1
                   /\ \A n \in 1..Len(mgr'.processed) :
                         mgr'.processed[n].sys = i =>
                            (e \in Range(ArgsOf(mgr'.processed[n], x))
                               <=> Member(mgr, i, x, e))
                   /\ Member(mgr', i, x, e) <=> Member(mgr, i, x, e)
             /\ (IsEvent(event', "modify", e) /\ Member(mgr, i, x, e)
                   /\ ~Has(e, co', f)) =>
                   /\ NotesFor(mgr', i, x) = <<Note("deactivated", x, e)>>
                   /\ ~Member(mgr', i, x, e)
             /\ (~Member(mgr, i, x, e) /\ Member(mgr', i, x, e)) =>
                   /\ event'.entity = e
                   /\ Has(e, co', f)]_vars

\* A one-edit batch has just removed C from an active member of system 1's
\* set B ({all: [C]}): one `deactivated` for that aspect, no longer a member.
C12_Witness ==
    \E e \in Entities :
        /\ IsEvent(event, "modify", e) /\ event.edits = 1
        /\ StateOf(e) = "active"
        /\ ~Has(e, co, "C")
        /\ NotesFor(mgr, 1, "b") = <<Note("deactivated", "b", e)>>
        /\ ~Member(mgr, 1, "b", e)

(***************************************************************************)
(* C13.  Reactivation batching: a mutation batch on an active entity,      *)
(* whatever its number of edits, produces exactly one `reactivated`        *)
(* callback per system, evaluated against the composition after the whole  *)
(* batch; on an entity that is not active the edits deliver nothing.       *)
(***************************************************************************)
C13_OneFanOutPerBatch ==
    [][\A e \in Entities : IsEvent(event', "modify", e) =>
         IF StateOf(e) = "active"
         THEN /\ mgr'.delivered =
                    [n \in 1..NumSystems |->
                        [sys |-> Registered[n], kind |-> "reactivated", entity |-> e]]
              /\ \A i \in SysIds, x \in Aspects :
                    /\ Len(NotesFor(mgr', i, x)) <= 1
                    /\ Member(mgr', i, x, e) <=> Check(AspectOf(i, x), e, co')
         ELSE /\ mgr'.delivered = << >>
              /\ \A i \in SysIds :
                    /\ mgr'.systems[i].inner = << >>
                    /\ mgr'.systems[i].interested_a = mgr.systems[i].interested_a
                    /\ mgr'.systems[i].interested_b = mgr.systems[i].interested_b]_vars

\* One batch of two edits (an insert and the removal of C) on an active
\* entity: one callback per system, and system 1 moved the entity from set B
\* to set A in that single call.
C13_Witness ==
    \E e \in Entities :
        /\ IsEvent(event, "modify", e) /\ event.edits = 2
        /\ StateOf(e) = "active"
        /\ co[Key(e)] = {"A", "B"}
        /\ Len(mgr.delivered) = NumSystems
        /\ mgr.systems[1].inner = <<Note("activated", "a", e), Note("deactivated", "b", e)>>

(***************************************************************************)
(* C14.  An error raised by one registered system during a lifecycle       *)
(* callback does not abort the fan-out: every registered system still      *)
(* receives the callback for that event, and the error is collected and    *)
(* surfaced to the caller after all callbacks have run.                    *)
(***************************************************************************)
C14_FanOutSurvivesError ==
    Panicked =>
        /\ \A i \in SysIds :
              \E n \in 1..Len(mgr.delivered) :
                  mgr.delivered[n] = [sys |-> i, kind |-> event.op,
                                      entity |-> event.entity]
        /\ Len(event.surfaced) >= 1

\* The notes about entity e that system i's inner routine received for aspect
\* x in the current call.
NotesAbout(m, i, x, e) ==
    SelectSeq(m.systems[i].inner, LAMBDA n : n.aspect = x /\ n.entity = e)

(***************************************************************************)
(* C15.  Identity reuse: an entity that is not active, in particular one   *)
(* created under the identity of a deleted entity and not yet activated,   *)
(* is a member of neither set of any system; the activation of an entity   *)
(* that reuses an identity finds no entry, so it is entered exactly where  *)
(* its own composition matches and is forwarded as `activated` only; and   *)
(* every `reactivated` or `deactivated` forward about an entity acts on an *)
(* entry that this entity itself holds since its own activation.           *)
(***************************************************************************)
C15_ReusedIdentityStartsClean ==
    [][\A e \in Entities, i \in SysIds, x \in Aspects :
         /\ world'[Key(e)].state # "active" => ~Member(mgr', i, x, e)
         /\ (IsEvent(event', "activate", e) /\ world[Key(e)].reused) =>
               /\ ~Member(mgr, i, x, e)
               /\ Member(mgr', i, x, e) <=> Check(AspectOf(i, x), e, co')
               /\ \A n \in 1..Len(NotesAbout(mgr', i, x, e)) :
                     NotesAbout(mgr', i, x, e)[n].kind = "activated"
         /\ (\E n \in 1..Len(NotesAbout(mgr', i, x, e)) :
                 NotesAbout(mgr', i, x, e)[n].kind \in {"reactivated", "deactivated"}) =>
               /\ StateOf(e) = "active"
               /\ Member(mgr, i, x, e)]_vars

\* An entity created under a reused identity has been given components and is
\* not yet activated: no system holds an entry under its identity.
C15_Witness ==
    \E e \in Entities :
        /\ IsEvent(event, "modify", e)
        /\ world[Key(e)].reused
        /\ StateOf(e) = "building"
        /\ co[Key(e)] # {}
        /\ \A i \in SysIds, x \in Aspects : ~Member(mgr, i, x, e)

\* A sequence lists exactly the handles stored in a map, each once.
ExactlyContents(seq, m) ==
    /\ Len(seq) = Cardinality(DOMAIN m)
    /\ Range(seq) = {m[k] : k \in DOMAIN m}

(***************************************************************************)
(* C16.  InteractSystem.process: in each tick the inner routine of a       *)
(* system is invoked exactly once, with two sequences that are exactly the *)
(* current contents of set A and of set B; an entity whose composition     *)
(* matched both aspects at its last lifecycle event is in both sequences,  *)
(* one that matched neither is in neither; and the tick adds no entity to  *)
(* and removes no entity from either set.                                  *)
(***************************************************************************)
C16_ProcessHandsBothSets ==
    [][event'.op = "update" =>
         \A i \in SysIds :
            LET calls == SelectSeq(mgr'.processed, LAMBDA r : r.sys = i)
            IN  /\ Len(calls) = 1
                /\ \A x \in Aspects :
                      /\ ExactlyContents(ArgsOf(calls[1], x), Interested(mgr, i, x))
                      /\ Interested(mgr', i, x) = Interested(mgr, i, x)
                /\ mgr'.systems[i].inner = << >>
                /\ \A e \in Entities :
                      StateOf(e) = "active" =>
                         /\ (\A x \in Aspects : Check(AspectOf(i, x), e, co)) =>
                               \A x \in Aspects : e \in Range(ArgsOf(calls[1], x))
                         /\ (\A x \in Aspects : ~Check(AspectOf(i, x), e, co)) =>
                               \A x \in Aspects : e \notin Range(ArgsOf(calls[1], x))]_vars

\* A tick in which system 2 hands its inner routine an entity in both
\* sequences while system 1 (whose aspects the entity does not match) hands
\* it two empty sequences.
C16_Witness ==
    /\ event.op = "update"
    /\ \E e \in Entities :
          /\ StateOf(e) = "active"
          /\ \E n \in 1..Len(mgr.processed) :
                /\ mgr.processed[n].sys = 2
                /\ mgr.processed[n].args = [a |-> <<e>>, b |-> <<e>>]
    /\ \E n \in 1..Len(mgr.processed) :
          /\ mgr.processed[n].sys = 1
          /\ mgr.processed[n].args = [a |-> << >>, b |-> << >>]

(***************************************************************************)
(* C17.  After any sequence of activated / reactivated / deactivated       *)
(* calls, a repeated `activated` for a member included, each membership    *)
(* set holds at most one entry per entity identity, and the entry stored   *)
(* under key i is the entity whose identity is i.                          *)
(***************************************************************************)
C17_OneEntryPerIdentity ==
    \A i \in SysIds, x \in Aspects :
        LET m == Interested(mgr, i, x)
        IN  /\ \A k \in DOMAIN m : Key(m[k]) = k
            /\ \A k1, k2 \in DOMAIN m : Key(m[k1]) = Key(m[k2]) => k1 = k2
            /\ Cardinality(DOMAIN m) <= Cardinality(Entities)

\* `activated` has just been called for an entity that system 2 already held
\* in set B: system 1 still holds it in set A from an earlier call, though its
\* composition no longer matches aspect A, and set B of system 2 (which
\* matches everything) was entered at that earlier call too.
C17_Witness ==
    \E e \in Entities :
        /\ IsEvent(event, "activated", e)
        /\ Member(mgr, 1, "a", e)
        /\ ~Check(AspectOf(1, "a"), e, co)
        /\ NotesFor(mgr, 2, "b") = <<Note("activated", "b", e)>>
        /\ Interested(mgr, 2, "b")[Key(e)] = e

(***************************************************************************)
(* C18.  One lifecycle fan-out (activated, reactivated or deactivated of   *)
(* e) does not mutate component storage, and there is one set of component *)
(* types present on e, the stored one, against which every aspect of every *)
(* system in the fan-out is evaluated.                                     *)
(***************************************************************************)
C18_FanOutReadsOneComposition ==
    [][\A e \in Entities : (event'.op \in Lifecycle /\ event'.entity = e) =>
         /\ co' = co
         /\ LET present == co[Key(e)]
            IN  \A i \in SysIds, x \in Aspects :
                   Member(mgr', i, x, e) <=>
                      NextMember(event'.op, Member(mgr, i, x, e),
                                 Matches(Range(AspectOf(i, x).all),
                                         Range(AspectOf(i, x).none), present))]_vars

\* A reactivated fan-out over an entity holding just C: system 1 (first) keeps
\* or enters it in set B, and system 2 (second) saw the same C, so its set A
\* ({none: [C]}) does not hold the entity.
C18_Witness ==
    \E e \in Entities :
        /\ IsEvent(event, "reactivated", e)
        /\ co[Key(e)] = {"C"}
        /\ Len(mgr.delivered) = NumSystems
        /\ Member(mgr, 1, "b", e)
        /\ ~Member(mgr, 2, "a", e)
        /\ Member(mgr, 2, "b", e)

(***************************************************************************)
(* C19.  Membership consistency under the World protocol (one `activated`  *)
(* on building -> active, one `reactivated` after every mutation batch     *)
(* while active, `deactivated` on leaving the active state): after each    *)
(* fan-out, e is in set X of a system iff e is active and aspect X matches *)
(* e's current composition.                                                *)
(***************************************************************************)
C19_MembershipConsistent ==
    \A e \in Entities, i \in SysIds, x \in Aspects :
        Member(mgr, i, x, e) <=>
            (StateOf(e) = "active" /\ Check(AspectOf(i, x), e, co))

\* After a mutation batch on an active entity that now holds A and B but not
\* C: in set A of system 1 and not in its set B, in both sets of system 2.
C19_Witness ==
    \E e \in Entities :
        /\ IsEvent(event, "modify", e)
        /\ StateOf(e) = "active"
        /\ co[Key(e)] = {"A", "B"}
        /\ Member(mgr, 1, "a", e) /\ ~Member(mgr, 1, "b", e)
        /\ Member(mgr, 2, "a", e) /\ Member(mgr, 2, "b", e)

(***************************************************************************)
(* C20.  Balanced forwards.  For every (entity, aspect) pair of a system,  *)
(* the cycle is open exactly while the entity is in that aspect's set.  A  *)
(* call forwards at most one notification per pair; `reactivated` is       *)
(* forwarded only inside an open cycle and leaves it open; `deactivated`   *)
(* is forwarded only inside an open cycle and closes it; `activated` opens *)
(* a cycle and, the World issuing `activated` only for entities that are   *)
(* not active, is forwarded only while no cycle is open; and a call that   *)
(* forwards nothing for the pair leaves its cycle as it was.               *)
(***************************************************************************)
C20_BalancedForwards ==
    [][\A e \in Entities, i \in SysIds, x \in Aspects :
         LET notes == NotesAbout(mgr', i, x, e)
             open == Member(mgr, i, x, e)
             openAfter == Member(mgr', i, x, e)
         IN  /\ Len(notes) <= 1
             /\ notes = << >> => (openAfter <=> open)
             /\ notes # << >> =>
                   CASE notes[1].kind = "activated" -> ~open /\ openAfter
                     [] notes[1].kind = "reactivated" -> open /\ openAfter
                     [] notes[1].kind = "deactivated" -> open /\ ~openAfter]_vars

\* The deletion of an entity that was in set B of system 1 only: that cycle
\* is closed by one `deactivated`, and nothing is forwarded for set A, whose
\* cycle was not open.
C20_Witness ==
    \E e \in Entities :
        /\ IsEvent(event, "delete", e)
        /\ mgr.systems[1].inner = <<Note("deactivated", "b", e)>>
        /\ mgr.systems[2].inner = <<Note("deactivated", "b", e)>>
        /\ \A i \in SysIds, x \in Aspects : ~Member(mgr, i, x, e)

====
